---- MODULE Spec2Model ----
(***************************************************************************)
(* Caching and cookie-backed session persistence of the OCTP scaffold:     *)
(* app/caching.py (InMemoryCache, RedisCache, cached), app/tools.py        *)
(* (ORJSONSerializer) and app/middlewares.py (SessionMiddleware,           *)
(* DBSessionMiddleware).                                                   *)
(*                                                                         *)
(* Each component has its own specification over the shared variables:     *)
(*   SpecMem      InMemoryCache get / set / delete and the clock           *)
(*   SpecLock     two callers of InMemoryCache, step by step under its lock*)
(*   SpecRedis    RedisCache get / set / delete over a fallible backend    *)
(*   SpecCached   the cached() wrapper over the process-wide cache         *)
(*   SpecKeys     the wrapper under every decoration                       *)
(*   SpecRace     two calls of the wrapper in flight                       *)
(*   SpecSession  SessionMiddleware.__call__ and its send_wrapper          *)
(*   SpecShared   two requests in flight that present one session token    *)
(*   SpecCookie   the Set-Cookie header under every configuration          *)
(*   SpecDB       DBSessionMiddleware.dispatch                             *)
(***************************************************************************)
EXTENDS Integers, Sequences, FiniteSets, TLC

VARIABLES
    now,        \* time.time(), in whole seconds
    store,      \* InMemoryCache.store: key -> (value, expires_at)
    redis,      \* the remote key-value server: full key -> (payload, expires_at)
    cache,      \* the module-level `cache` of app/caching.py: "memory" or "redis"
    w,          \* per caller of a cached() wrapper: where it is, and its locals
    req,        \* per request: where SessionMiddleware.__call__ is, and its locals
    minted,     \* the tokens secrets.token_urlsafe has returned so far
    persisted,  \* history: per token, the mapping of the latest store write
    written,    \* history: per key, the latest set not followed by a delete
    last,       \* history: the latest cache call, its arguments and outcome
    emitted,    \* a SessionMiddleware configuration and the Set-Cookie header it
                \* built last
    lock,       \* InMemoryCache.lock: the caller that holds it, or 0
    mc,         \* per concurrent caller of InMemoryCache: where it is, its locals
    everSet,    \* history: per key, the values passed to InMemoryCache.set so far
    db,         \* per request: where DBSessionMiddleware.dispatch is, and what it
                \* did to the request's database session
    raised      \* history: per key, whether the latest wrapper call that ran the
                \* computation ended in its raising ("raised"; "raised-unread" when
                \* that call's lookup had not reached the backend), else "no"

(***************************************************************************)
(* Bounds of the model.                                                    *)
(***************************************************************************)
MaxTime == 2
MaxTTL == 2

(***************************************************************************)
(* Python values.  A value is a scalar, written as its Python literal, or  *)
(* a dict over SessionKeys (the session mapping); Absent marks a key the   *)
(* dict does not hold.                                                     *)
(***************************************************************************)
SessionKeys == {"user_id", "cart"}
Absent == "<absent>"
NoItems == [k \in SessionKeys |-> Absent]
Lit(s) == [dict |-> FALSE, lit |-> s, items |-> NoItems]
Dict(f) == [dict |-> TRUE, lit |-> "", items |-> f]
None == Lit("None")
EmptyDict == Dict(NoItems)

\* Literals that are false in a Python condition (`if value`, `not value`).
FalsyLiterals == {"None", "0", "''", "[]", "()"}
Truthy(v) ==
    IF v.dict THEN \E k \in SessionKeys : v.items[k] # Absent
    ELSE v.lit \notin FalsyLiterals

\* The values callers pass to the caches: "", 0, an empty list, and two
\* non-empty values.
FalsyValues == {Lit("''"), Lit("0"), Lit("[]")}
TruthyValues == {Lit("1"), Lit("'a'")}
CacheValues == FalsyValues \cup TruthyValues

Keys == {"k1", "k2"}

\* ttl: int | None = None.  NoTTL is Python's None.
NoTTL == -1
TTLs == {NoTTL} \cup (0 .. MaxTTL)
\* expires_at is None when the entry has no expiry.
NoExpiry == -1

NoExc == "no exception"

cachedVars == <<cache, w, raised>>
sessionVars == <<req, minted, persisted>>
auxVars == <<emitted, lock, mc, everSet, db>>

(***************************************************************************)
(* InMemoryCache                                                           *)
(***************************************************************************)
EmptyStore == [k \in {} |-> [value |-> None, expires_at |-> NoExpiry]]
Remove(f, key) == [k \in DOMAIN f \ {key} |-> f[k]]
Put(f, key, entry) == [k \in DOMAIN f \cup {key} |-> IF k = key THEN entry ELSE f[k]]

NoWrite == [set |-> FALSE, value |-> None, ttl |-> NoTTL, at |-> 0]
NoCall == [op |-> "none", backend |-> "none", key |-> "", value |-> None,
           fault |-> "ok", ret |-> None, exc |-> NoExc, at |-> 0, had |-> FALSE]

\* `expires_at = time.time() + ttl if ttl else None`
ExpiresAt(t, ttl) == IF ttl # NoTTL /\ ttl # 0 THEN t + ttl ELSE NoExpiry

\* `expires_at is None or expires_at > time.time()`
Unexpired_inclusive(expires_at, t) == expires_at = NoExpiry \/ expires_at >= t
Unexpired_never(expires_at, t) == expires_at # NoExpiry /\ expires_at > t
Unexpired(expires_at, t) == expires_at = NoExpiry \/ expires_at > t

\* The store after get(key): an expired entry is deleted on the read.
StoreAfterGet(s, key, t) ==
    IF key \in DOMAIN s /\ ~Unexpired(s[key].expires_at, t) THEN Remove(s, key) ELSE s

\* The value get(key) returns.
MemLookup(s, key, t) ==
    IF key \in DOMAIN s /\ Unexpired(s[key].expires_at, t) THEN s[key].value ELSE None

InMemoryCache_get(key) ==
    /\ store' = StoreAfterGet(store, key, now)
    /\ last' = [NoCall EXCEPT !.op = "get", !.backend = "memory", !.key = key,
                              !.ret = MemLookup(store, key, now), !.at = now,
                              !.had = key \in DOMAIN store]
    /\ UNCHANGED <<now, written, redis, cachedVars, sessionVars, auxVars>>

InMemoryCache_set(key, value, ttl) ==
    /\ store' = Put(store, key, [value |-> value, expires_at |-> ExpiresAt(now, ttl)])
    /\ written' = [written EXCEPT ![key] =
                       [set |-> TRUE, value |-> value, ttl |-> ttl, at |-> now]]
    /\ last' = [NoCall EXCEPT !.op = "set", !.backend = "memory", !.key = key,
                              !.value = value, !.at = now,
                              !.had = key \in DOMAIN store]
    /\ UNCHANGED <<now, redis, cachedVars, sessionVars, auxVars>>

\* `del self.store[key]` raises KeyError when the key is not in the dict.
InMemoryCache_delete(key) ==
    /\ store' = IF key \in DOMAIN store THEN Remove(store, key) ELSE store
    /\ written' = [written EXCEPT ![key] = NoWrite]
    /\ last' = [NoCall EXCEPT !.op = "delete", !.backend = "memory", !.key = key,
                              !.exc = IF key \in DOMAIN store THEN NoExc ELSE "KeyError",
                              !.at = now, !.had = key \in DOMAIN store]
    /\ UNCHANGED <<now, redis, cachedVars, sessionVars, auxVars>>

(***************************************************************************)
(* InMemoryCache under concurrent callers: each call takes self.lock, runs  *)
(* its body statement by statement, and releases the lock.                 *)
(***************************************************************************)
Callers == {1, 2}

NoOp == [pc |-> "idle", op |-> "none", key |-> "", value |-> None, ttl |-> NoTTL,
         expires_at |-> NoExpiry, ret |-> None, exc |-> NoExc]

\* A caller calls get(key), set(key, value, ttl) or delete(key).
InMemoryCache_call(p, op, key, value, ttl) ==
    /\ mc[p].pc = "idle"
    /\ mc' = [mc EXCEPT ![p] = [NoOp EXCEPT !.pc = "acquire", !.op = op, !.key = key,
                                            !.value = value, !.ttl = ttl]]
    /\ everSet' = IF op = "set" THEN [everSet EXCEPT ![key] = @ \cup {value}] ELSE everSet
    /\ UNCHANGED <<now, store, redis, written, last, cachedVars, sessionVars, emitted, lock, db>>

\* `async with self.lock`: asyncio.Lock.acquire returns once the lock is free.
Acquirable_always(l) == TRUE
Acquirable(l) == l = 0

lock_acquire(p) ==
    /\ mc[p].pc = "acquire"
    /\ Acquirable(lock)
    /\ lock' = p
    /\ mc' = [mc EXCEPT ![p].pc = "locked"]
    /\ UNCHANGED <<now, store, redis, written, last, cachedVars, sessionVars, emitted, everSet, db>>

\* get: `if key in self.store: value, expires_at = self.store[key]`
get_read(p) ==
    /\ mc[p].pc = "locked" /\ mc[p].op = "get"
    /\ mc' = [mc EXCEPT ![p] =
                 IF mc[p].key \in DOMAIN store
                 THEN [@ EXCEPT !.pc = "read", !.value = store[mc[p].key].value,
                                !.expires_at = store[mc[p].key].expires_at]
                 ELSE [@ EXCEPT !.pc = "release", !.ret = None]]
    /\ UNCHANGED <<now, store, redis, written, last, cachedVars, sessionVars, emitted, lock,
                   everSet, db>>

\* get: `if expires_at is None or expires_at > time.time(): return value`
\* `else: del self.store[key]`, then `return None`
get_check(p) ==
    /\ mc[p].pc = "read"
    /\ IF Unexpired(mc[p].expires_at, now)
       THEN /\ mc' = [mc EXCEPT ![p].pc = "release", ![p].ret = mc[p].value]
            /\ store' = store
       ELSE /\ mc' = [mc EXCEPT ![p].pc = "release", ![p].ret = None,
                                ![p].exc = IF mc[p].key \in DOMAIN store THEN NoExc
                                           ELSE "KeyError"]
            /\ store' = Remove(store, mc[p].key)
    /\ UNCHANGED <<now, redis, written, last, cachedVars, sessionVars, emitted, lock, everSet, db>>

\* set: `expires_at = time.time() + ttl if ttl else None`
set_expiry(p) ==
    /\ mc[p].pc = "locked" /\ mc[p].op = "set"
    /\ mc' = [mc EXCEPT ![p].pc = "computed", ![p].expires_at = ExpiresAt(now, mc[p].ttl)]
    /\ UNCHANGED <<now, store, redis, written, last, cachedVars, sessionVars, emitted, lock,
                   everSet, db>>

\* set: `self.store[key] = (value, expires_at)`
set_assign(p) ==
    /\ mc[p].pc = "computed"
    /\ store' = Put(store, mc[p].key,
                    [value |-> mc[p].value, expires_at |-> mc[p].expires_at])
    /\ mc' = [mc EXCEPT ![p].pc = "release"]
    /\ UNCHANGED <<now, redis, written, last, cachedVars, sessionVars, emitted, lock, everSet, db>>

\* delete: `del self.store[key]`
delete_del(p) ==
    /\ mc[p].pc = "locked" /\ mc[p].op = "delete"
    /\ store' = Remove(store, mc[p].key)
    /\ mc' = [mc EXCEPT ![p].pc = "release",
                        ![p].exc = IF mc[p].key \in DOMAIN store THEN NoExc ELSE "KeyError"]
    /\ UNCHANGED <<now, redis, written, last, cachedVars, sessionVars, emitted, lock, everSet, db>>

\* The end of `async with self.lock`, on return or on an exception.
lock_release(p) ==
    /\ mc[p].pc = "release"
    /\ lock' = IF lock = p THEN 0 ELSE lock
    /\ mc' = [mc EXCEPT ![p].pc = "idle"]
    /\ UNCHANGED <<now, store, redis, written, last, cachedVars, sessionVars, emitted, everSet, db>>

(***************************************************************************)
(* ORJSONSerializer (app/tools.py).  A payload is JSON text: a scalar      *)
(* document, written as its text, or an object over SessionKeys.           *)
(***************************************************************************)
Json(text) == [obj |-> FALSE, text |-> text, members |-> NoItems]
JsonObject(m) == [obj |-> TRUE, text |-> "", members |-> m]

\* orjson.dumps on the literals of the model: a tuple is written as an array.
PyToJsonText ==
    [l \in {"None", "0", "1", "42", "''", "'a'", "[]", "()", "[1]", "(1,)"} |->
        CASE l = "None" -> "null"
          [] l = "''" -> "\"\""
          [] l = "'a'" -> "\"a\""
          [] l = "()" -> "[]"
          [] l = "(1,)" -> "[1]"
          [] OTHER -> l]

\* orjson.loads on the JSON texts of the model.
JsonTextToPy ==
    [j \in {"null", "0", "1", "42", "\"\"", "\"a\"", "[]", "[1]"} |->
        CASE j = "null" -> "None"
          [] j = "\"\"" -> "''"
          [] j = "\"a\"" -> "'a'"
          [] OTHER -> j]

encode(value) ==
    IF value.dict
    THEN JsonObject([k \in SessionKeys |->
             IF value.items[k] = Absent THEN Absent ELSE PyToJsonText[value.items[k]]])
    ELSE Json(PyToJsonText[value.lit])

\* orjson.loads raises JSONDecodeError on text that is not JSON.
Decodable(payload) == payload.obj \/ payload.text \in DOMAIN JsonTextToPy

decode(payload) ==
    IF payload.obj
    THEN Dict([k \in SessionKeys |->
             IF payload.members[k] = Absent THEN Absent ELSE JsonTextToPy[payload.members[k]]])
    ELSE Lit(JsonTextToPy[payload.text])

(***************************************************************************)
(* The remote server as the redis client shows it: GET, SET [EX], DEL.     *)
(* A call ends normally ("ok") or raises redis.exceptions.ConnectionError  *)
(* or redis.exceptions.TimeoutError (both RedisError, neither a subclass   *)
(* of the other).                                                          *)
(***************************************************************************)
Faults == {"ok", "ConnectionError", "TimeoutError"}
Nil == Json("<nil>")
EmptyServer == [k \in {} |-> [payload |-> Nil, expires_at |-> NoExpiry]]

\* A key the server still holds at time t.
Live(srv, fk, t) ==
    fk \in DOMAIN srv /\ (srv[fk].expires_at = NoExpiry \/ srv[fk].expires_at > t)
ServerGet(srv, fk, t) == IF Live(srv, fk, t) THEN srv[fk].payload ELSE Nil
ServerSet(srv, fk, payload, ttl, t) ==
    Put(srv, fk, [payload |-> payload,
                  expires_at |-> IF ttl = NoTTL THEN NoExpiry ELSE t + ttl])
ServerDel(srv, fk) == Remove(srv, fk)
\* The server drops a key when its expiry is reached.
ServerAt(srv, t) == [fk \in {k \in DOMAIN srv : Live(srv, k, t)} |-> srv[fk]]

(***************************************************************************)
(* RedisCache                                                              *)
(***************************************************************************)
\* `if self._prefix: key = f"{self._prefix}:{key}"`
FullKey(prefix, key) == IF prefix # "" THEN prefix \o ":" \o key ELSE key

\* The exceptions `except ConnectionError` catches.
Caught(exc) == exc = "ConnectionError"

\* get(key): what it returns, and the exception that leaves it.
RedisGet(srv, prefix, key, fault, t) ==
    LET value == ServerGet(srv, FullKey(prefix, key), t) IN
    IF key = "" THEN [ret |-> None, exc |-> NoExc]
    ELSE IF fault # "ok"
    THEN [ret |-> None, exc |-> IF Caught(fault) THEN NoExc ELSE fault]
    ELSE IF value = Nil \/ value = Json("") THEN [ret |-> None, exc |-> NoExc]
    ELSE IF Decodable(value) THEN [ret |-> decode(value), exc |-> NoExc]
    ELSE [ret |-> None, exc |-> IF Caught("JSONDecodeError") THEN NoExc
                                ELSE "JSONDecodeError"]

\* `if not key or not value: return`
SetSkipped(key, value) == key = "" \/ ~Truthy(value)

\* set(key, value, ttl): the server afterwards, and the exception that leaves it.
RedisSet_keepTTL(srv, prefix, key, value, ttl, fault, t) ==
    LET fk == FullKey(prefix, key)
        set == ServerSet(srv, fk, encode(value), ttl, t)
    IN IF SetSkipped(key, value) THEN [srv |-> srv, exc |-> NoExc]
       ELSE IF fault # "ok"
       THEN [srv |-> srv, exc |-> IF Caught(fault) THEN NoExc ELSE fault]
       ELSE [srv |-> IF Live(srv, fk, t)
                     THEN [set EXCEPT ![fk].expires_at = srv[fk].expires_at]
                     ELSE set,
             exc |-> NoExc]
RedisSet_merge(srv, prefix, key, value, ttl, fault, t) ==
    LET fk == FullKey(prefix, key)
        old == IF Live(srv, fk, t) /\ Decodable(srv[fk].payload)
               THEN decode(srv[fk].payload) ELSE EmptyDict
        merged == IF value.dict /\ old.dict
                  THEN Dict([k \in SessionKeys |->
                               IF value.items[k] # Absent THEN value.items[k]
                               ELSE old.items[k]])
                  ELSE value
    IN IF SetSkipped(key, value) THEN [srv |-> srv, exc |-> NoExc]
       ELSE IF fault # "ok"
       THEN [srv |-> srv, exc |-> IF Caught(fault) THEN NoExc ELSE fault]
       ELSE [srv |-> ServerSet(srv, fk, encode(merged), ttl, t), exc |-> NoExc]
RedisSet(srv, prefix, key, value, ttl, fault, t) ==
    IF SetSkipped(key, value) THEN [srv |-> srv, exc |-> NoExc]
    ELSE IF fault # "ok"
    THEN [srv |-> srv, exc |-> IF Caught(fault) THEN NoExc ELSE fault]
    ELSE [srv |-> ServerSet(srv, FullKey(prefix, key), encode(value), ttl, t),
          exc |-> NoExc]

\* delete(key): the server afterwards, and the exception that leaves it.
RedisDelete_noPrefix(srv, prefix, key, fault) ==
    IF key = "" THEN [srv |-> srv, exc |-> NoExc]
    ELSE IF fault # "ok"
    THEN [srv |-> srv, exc |-> IF Caught(fault) THEN NoExc ELSE fault]
    ELSE [srv |-> ServerDel(srv, key), exc |-> NoExc]
RedisDelete(srv, prefix, key, fault) ==
    IF key = "" THEN [srv |-> srv, exc |-> NoExc]
    ELSE IF fault # "ok"
    THEN [srv |-> srv, exc |-> IF Caught(fault) THEN NoExc ELSE fault]
    ELSE [srv |-> ServerDel(srv, FullKey(prefix, key)), exc |-> NoExc]

\* set_redis_cache(redis, settings.APP_NAME)
CachePrefix == "app"
RedisKeys == Keys \cup {""}
RedisTTLs == {NoTTL} \cup (1 .. MaxTTL)

RedisCache_get(key, fault) ==
    LET r == RedisGet(redis, CachePrefix, key, fault, now) IN
    /\ last' = [NoCall EXCEPT !.op = "get", !.backend = "redis", !.key = key,
                              !.fault = fault, !.ret = r.ret, !.exc = r.exc,
                              !.had = Live(redis, FullKey(CachePrefix, key), now)]
    /\ UNCHANGED <<now, store, redis, written, cachedVars, sessionVars, auxVars>>

RedisCache_set(key, value, ttl, fault) ==
    LET r == RedisSet(redis, CachePrefix, key, value, ttl, fault, now) IN
    /\ redis' = r.srv
    /\ last' = [NoCall EXCEPT !.op = "set", !.backend = "redis", !.key = key,
                              !.value = value, !.fault = fault,
                              !.exc = r.exc,
                              !.had = Live(redis, FullKey(CachePrefix, key), now)]
    /\ UNCHANGED <<now, store, written, cachedVars, sessionVars, auxVars>>

RedisCache_delete(key, fault) ==
    LET r == RedisDelete(redis, CachePrefix, key, fault) IN
    /\ redis' = r.srv
    /\ last' = [NoCall EXCEPT !.op = "delete", !.backend = "redis", !.key = key,
                              !.fault = fault, !.exc = r.exc,
                              !.had = Live(redis, FullKey(CachePrefix, key), now)]
    /\ UNCHANGED <<now, store, written, cachedVars, sessionVars, auxVars>>

\* The server is shared: another client can leave any text under a key.
ForeignPayloads == {Json(""), Json("not json")}
ForeignWrite(key, payload) ==
    /\ redis' = ServerSet(redis, FullKey(CachePrefix, key), payload, NoTTL, now)
    /\ last' = NoCall
    /\ UNCHANGED <<now, store, written, cachedVars, sessionVars, auxVars>>

(***************************************************************************)
(* cached(): the memoizing decorator over the module-level `cache`.        *)
(***************************************************************************)
\* The decorated computations: @cached on f, and
\* @cached(cache_key="fixed", ttl=1, namespace="ns", key_builder=...) on g.
Decorated ==
    {[name |-> "f", cache_key |-> "", key_builder |-> FALSE, namespace |-> "", ttl |-> NoTTL],
     [name |-> "g", cache_key |-> "fixed", key_builder |-> TRUE, namespace |-> "ns", ttl |-> 1]}
Args == {"(1,)", "(2,)"}

\* hashlib.md5(...).hexdigest(): equal texts give equal digests, and no two
\* texts of the model collide.
md5(text) == "md5<" \o text \o ">"

\* The wrapper calls default_key_builder(_func_or_coro, args, kwargs): the
\* two containers arrive as *args, and **kwargs is empty.
default_key_builder(name, args) == md5(name \o ":(" \o args \o ", {}):{}")

\* A caller-supplied key_builder(func, args, kwargs).
key_builder(name, args) == "kb:" \o name \o args

\* Every way of decorating a computation h: with or without cache_key,
\* key_builder and namespace.
KeyConfigs ==
    [name : {"h"}, cache_key : {"", "fixed"}, key_builder : BOOLEAN,
     namespace : {"", "ns"}, ttl : {NoTTL}]

\* The key the wrapper looks up and stores under.
WrapperKey_builderFirst(d, args) ==
    LET key == IF d.key_builder THEN key_builder(d.name, args)
               ELSE IF d.cache_key # "" THEN d.cache_key
               ELSE default_key_builder(d.name, args)
    IN IF d.namespace # "" THEN d.namespace \o ":" \o key ELSE key
WrapperKey(d, args) ==
    LET key == IF d.cache_key # "" THEN d.cache_key
               ELSE IF d.key_builder THEN key_builder(d.name, args)
               ELSE default_key_builder(d.name, args)
    IN IF d.namespace # "" THEN d.namespace \o ":" \o key ELSE key

WrapperKeys == {WrapperKey(d, a) : d \in Decorated \cup KeyConfigs, a \in Args}

\* What the wrapped computation does when it runs: it raises, or returns a value.
Outcomes ==
    {[exc |-> "ValueError", value |-> Lit("ValueError()")]}
        \cup {[exc |-> NoExc, value |-> v] : v \in {Lit("0"), Lit("1"), Lit("'a'")}}

\* cache.get(key) on whichever backend `cache` is.
CacheGet(c, st, srv, key, fault, t) ==
    IF c = "memory"
    THEN [ret |-> MemLookup(st, key, t), exc |-> NoExc, store |-> StoreAfterGet(st, key, t)]
    ELSE LET r == RedisGet(srv, CachePrefix, key, fault, t)
         IN [ret |-> r.ret, exc |-> r.exc, store |-> st]

\* cache.set(key, value, ttl) on whichever backend `cache` is.
CacheSet(c, st, srv, key, value, ttl, fault, t) ==
    IF c = "memory"
    THEN [store |-> Put(st, key, [value |-> value, expires_at |-> ExpiresAt(t, ttl)]),
          srv |-> srv, exc |-> NoExc, wrote |-> TRUE]
    ELSE LET r == RedisSet(srv, CachePrefix, key, value, ttl, fault, t)
         IN [store |-> st, srv |-> r.srv, exc |-> r.exc,
             wrote |-> ~SetSkipped(key, value) /\ fault = "ok"]

Idle == [pc |-> "idle", d |-> CHOOSE d \in Decorated : d.name = "f", args |-> "",
         key |-> "", value |-> None, exc |-> NoExc, compExc |-> NoExc,
         executed |-> FALSE, stored |-> FALSE, readable |-> TRUE, sawRaised |-> "no",
         reached |-> FALSE, until |-> NoExpiry]

\* set_redis_cache: `global cache; cache = RedisCache(redis, prefix)`.  It is
\* called from the lifespan startup of create_app, which ends before the
\* first request is served: no wrapper call has been made yet.
set_redis_cache ==
    /\ cache = "memory"
    /\ \A p \in Callers : w[p] = Idle
    /\ cache' = "redis"
    /\ UNCHANGED <<now, store, redis, written, last, w, raised, sessionVars, auxVars>>

\* `if value is None`
Miss_always(value) == TRUE
Miss(value) == value = None

\* wrapper, up to `value = await cache.get(key)` and `if value is None`.
cached_lookup(p, d, args, fault) ==
    LET key == WrapperKey(d, args)
        r == CacheGet(cache, store, redis, key, fault, now)
        miss == r.exc = NoExc /\ Miss(r.ret)
    IN /\ w[p].pc = "idle"
       /\ store' = r.store
       /\ w' = [w EXCEPT ![p] =
                  [Idle EXCEPT !.pc = IF miss THEN "miss" ELSE "idle",
                               !.d = d, !.args = args, !.key = key,
                               !.value = r.ret, !.exc = r.exc,
                               !.readable = (cache = "memory" \/ fault = "ok"),
                               !.sawRaised = raised[key]]]
       /\ UNCHANGED <<now, redis, written, last, cache, raised, sessionVars, auxVars>>

\* Where the wrapper goes after `value = await ensure_async_func(...)`: an
\* exception leaves the wrapper, a value goes on to cache.set.
AfterCompute_swallow(exc) == "computed"
AfterCompute(exc) == IF exc # NoExc THEN "idle" ELSE "computed"

\* wrapper: `value = await ensure_async_func(*args, **kwargs)`.
cached_compute_singleFlight(p, outcome) ==
    /\ w[p].pc = "miss"
    /\ \A q \in Callers \ {p} : w[q].pc \notin {"miss", "computed"} \/ w[q].key # w[p].key
    /\ w' = [w EXCEPT ![p].pc = AfterCompute(outcome.exc),
                      ![p].executed = TRUE,
                      ![p].value = outcome.value,
                      ![p].compExc = outcome.exc,
                      ![p].exc = IF AfterCompute(outcome.exc) = "idle" THEN outcome.exc
                                 ELSE NoExc]
    /\ raised' = [raised EXCEPT ![w[p].key] =
                      IF outcome.exc = NoExc THEN "no"
                      ELSE IF w[p].readable THEN "raised" ELSE "raised-unread"]
    /\ UNCHANGED <<now, store, redis, written, last, cache, sessionVars, auxVars>>
cached_compute(p, outcome) ==
    /\ w[p].pc = "miss"
    /\ w' = [w EXCEPT ![p].pc = AfterCompute(outcome.exc),
                      ![p].executed = TRUE,
                      ![p].value = outcome.value,
                      ![p].compExc = outcome.exc,
                      ![p].exc = IF AfterCompute(outcome.exc) = "idle" THEN outcome.exc
                                 ELSE NoExc]
    /\ raised' = [raised EXCEPT ![w[p].key] =
                      IF outcome.exc = NoExc THEN "no"
                      ELSE IF w[p].readable THEN "raised" ELSE "raised-unread"]
    /\ UNCHANGED <<now, store, redis, written, last, cache, sessionVars, auxVars>>

\* wrapper: `await cache.set(key, value, ttl)` and `return value`.
cached_store(p, fault) ==
    LET r == CacheSet(cache, store, redis, w[p].key, w[p].value, w[p].d.ttl, fault, now)
    IN /\ w[p].pc = "computed"
       /\ store' = r.store
       /\ redis' = r.srv
       /\ w' = [w EXCEPT ![p].pc = "idle", ![p].stored = TRUE, ![p].exc = r.exc,
                         ![p].reached = (cache = "memory" \/ fault = "ok"),
                         ![p].until = ExpiresAt(now, w[p].d.ttl)]
       /\ raised' = [raised EXCEPT ![w[p].key] = IF r.wrote THEN "no" ELSE @]
       /\ UNCHANGED <<now, written, last, cache, sessionVars, auxVars>>

(***************************************************************************)
(* SessionMiddleware                                                       *)
(***************************************************************************)
Requests == {1, 2}

\* The middleware as create_app configures it.  NoDomain is Python's None.
NoDomain == "<None>"
session_cookie == "session"
max_age == MaxTTL
path == "/"
same_site == "lax"
https_only == FALSE
domain == NoDomain
AppConfig ==
    [session_cookie |-> session_cookie, max_age |-> max_age, path |-> path,
     same_site |-> same_site, https_only |-> https_only, domain |-> domain]

\* The configurations of the middleware: max_age None or a positive number
\* of seconds (with 0 the server refuses the store set of the response start,
\* SET ... EX 0, and no persisting header is built), domain None or a string.
Configs ==
    [session_cookie : {session_cookie}, max_age : {NoTTL} \cup (1 .. MaxTTL),
     path : {path}, same_site : {"lax", "strict", "none"}, https_only : BOOLEAN,
     domain : {NoDomain, "", "example.com"}]

\* __init__: `self.security_flags = "httponly; samesite=" + same_site ...`,
\* as the sequence of the attributes that "; " separates.
SecurityFlags_secure(c) ==
    <<"httponly", "samesite=" \o c.same_site, "secure">>
        \o (IF c.domain # NoDomain THEN <<"domain=" \o c.domain>> ELSE <<>>)
SecurityFlags(c) ==
    <<"httponly", "samesite=" \o c.same_site>>
        \o (IF c.https_only THEN <<"secure">> ELSE <<>>)
        \o (IF c.domain # NoDomain THEN <<"domain=" \o c.domain>> ELSE <<>>)
security_flags == SecurityFlags(AppConfig)

\* The tokens secrets.token_urlsafe(32) can return, and a cookie value it
\* never returned.
FreshTokens == {"tok1", "tok2"}
Forged == "forged"
Tokens == FreshTokens \cup {Forged}

\* The cookie of a request: none, or a value.
NoCookie == "<no cookie>"

\* The value a handler stores under each key of the session.
SessionValueOf(k) == IF k = "user_id" THEN "42" ELSE "'a'"

\* The Set-Cookie header, by the fields of its format string.
NoHeader == [name |-> "", data |-> "", path |-> "", max_age |-> "", expires |-> "",
             security_flags |-> <<>>]
PersistHeaderOf(c, token) ==
    [name |-> c.session_cookie, data |-> token, path |-> c.path,
     max_age |-> IF c.max_age # NoTTL /\ c.max_age # 0
                 THEN "Max-Age=" \o ToString(c.max_age) \o "; "
                 ELSE "",
     expires |-> "", security_flags |-> SecurityFlags(c)]
ClearHeaderOf(c) ==
    [name |-> c.session_cookie, data |-> "null", path |-> c.path, max_age |-> "",
     expires |-> "expires=Thu, 01 Jan 1970 00:00:00 GMT; ",
     security_flags |-> SecurityFlags(c)]
PersistHeader(token) == PersistHeaderOf(AppConfig, token)
ClearHeader == ClearHeaderOf(AppConfig)

\* send_wrapper builds the header of the persisting form, or of the clearing
\* form, from the configuration of the middleware.
format_persist(token) ==
    /\ emitted' = [emitted EXCEPT !.header = PersistHeaderOf(emitted.cfg, token)]
    /\ UNCHANGED <<now, store, redis, written, last, cachedVars, sessionVars,
                   lock, mc, everSet, db>>
format_clear ==
    /\ emitted' = [emitted EXCEPT !.header = ClearHeaderOf(emitted.cfg)]
    /\ UNCHANGED <<now, store, redis, written, last, cachedVars, sessionVars,
                   lock, mc, everSet, db>>

\* The header value as the format string of send_wrapper renders it:
\* "{session_cookie}={data}; path={path}; {max_age}{security_flags}", with
\* {expires} in the place of {max_age} in the clearing form.
RECURSIVE Joined(_)
Joined(flags) ==
    IF flags = <<>> THEN ""
    ELSE IF Len(flags) = 1 THEN flags[1]
    ELSE flags[1] \o "; " \o Joined(Tail(flags))
header_value(h) ==
    h.name \o "=" \o h.data \o "; path=" \o h.path \o "; " \o h.max_age \o h.expires
        \o Joined(h.security_flags)

\* The ASGI messages the application sends: the response start with its
\* status and headers, a body, a websocket frame.
Messages == {"http.response.start", "http.response.body", "websocket.send"}
AppMessage(type) ==
    [type |-> type,
     status |-> IF type = "http.response.start" THEN 200 ELSE 0,
     headers |-> IF type = "http.response.start"
                 THEN <<[name |-> "content-type", value |-> "text/html"]>>
                 ELSE <<>>,
     body |-> IF type = "http.response.start" THEN "" ELSE "b"]

\* `headers = MutableHeaders(scope=message)`, `headers.append("Set-Cookie",
\* header_value)`: the message with one more header at the end of its list.
WithSetCookie(m, h) ==
    [m EXCEPT !.headers = Append(@, [name |-> "Set-Cookie", value |-> header_value(h)])]

NoOps == [get |-> 0, set |-> 0, delete |-> 0]

\* A request slot before __call__.  `value` is "" where the code holds None:
\* the code only tests it for truth.  `in_scope` says that scope["session"]
\* exists, `wrapped` that the application was given send_wrapper, `sent` is
\* what the latest call of send_wrapper passed to the downstream send.
New == [pc |-> "new", type |-> "", has_cookie |-> FALSE, value |-> "",
        session |-> EmptyDict, in_scope |-> FALSE, wrapped |-> FALSE,
        initial_session_was_empty |-> TRUE,
        set_cookie |-> NoHeader, ops |-> NoOps, exc |-> NoExc, sent |-> <<>>]

\* `if data: scope["session"] = data; initial_session_was_empty = False`
\* `else: scope["session"] = {}`
Hydrate_discard(data) ==
    [session |-> EmptyDict, initial_session_was_empty |-> ~Truthy(data)]
Hydrate(data) ==
    [session |-> IF Truthy(data) THEN data ELSE EmptyDict,
     initial_session_was_empty |-> ~Truthy(data)]

\* `if scope["type"] not in ("http", "websocket")`
PassedThrough_never(type) == FALSE
PassedThrough(type) == type \notin {"http", "websocket"}

\* __call__, up to `await self.app(scope, receive, send_wrapper)`.
SessionMiddleware_call(r, type, cookie, fault) ==
    LET got == RedisGet(redis, session_cookie, cookie, fault, now)
        h == Hydrate(got.ret)
    IN /\ req[r].pc = "new"
       /\ req' = [req EXCEPT ![r] =
            IF PassedThrough(type)
            THEN [New EXCEPT !.pc = "app", !.type = type]
            ELSE IF cookie = NoCookie
            THEN [New EXCEPT !.pc = "app", !.type = type, !.in_scope = TRUE,
                             !.wrapped = TRUE]
            ELSE IF got.exc # NoExc
            THEN [New EXCEPT !.pc = "failed", !.type = type, !.has_cookie = TRUE,
                             !.value = cookie, !.ops.get = 1, !.exc = got.exc]
            ELSE [New EXCEPT !.pc = "app", !.type = type, !.has_cookie = TRUE,
                             !.value = cookie, !.in_scope = TRUE, !.wrapped = TRUE,
                             !.ops.get = 1,
                             !.session = h.session,
                             !.initial_session_was_empty = h.initial_session_was_empty]]
       /\ UNCHANGED <<now, store, redis, written, last, cachedVars, minted, persisted, auxVars>>

\* A downstream handler assigns or deletes one key of scope["session"].
handler_mutates(r, k, v) ==
    /\ req[r].pc \in {"app", "started", "forwarded"}
    /\ req[r].in_scope
    /\ req' = [req EXCEPT ![r].session = Dict([req[r].session.items EXCEPT ![k] = v])]
    /\ UNCHANGED <<now, store, redis, written, last, cachedVars, minted, persisted, auxVars>>

\* send_wrapper: which branch the "http.response.start" message takes.
PersistBranch_noInitialCheck(session, initial_session_was_empty) ==
    IF Truthy(session) THEN "persist" ELSE "clear"
PersistBranch(session, initial_session_was_empty) ==
    IF Truthy(session) THEN "persist"
    ELSE IF ~initial_session_was_empty THEN "clear"
    ELSE "none"

\* `if message["type"] == "http.response.start"`
Persists_any(message) == TRUE
Persists(message) == message = "http.response.start"

\* `token = value or secrets.token_urlsafe(32)`
TokenFor_fresh(value, fresh) == fresh
TokenFor(value, fresh) == IF value # "" THEN value ELSE fresh

\* send_wrapper(message).  `fresh` is what secrets.token_urlsafe(32) returns
\* if it is called.
send_wrapper(r, message, fresh, fault) ==
    LET q == req[r]
        branch == IF Persists(message)
                  THEN PersistBranch(q.session, q.initial_session_was_empty)
                  ELSE "none"
        token == TokenFor(q.value, fresh)
        sr == RedisSet(redis, session_cookie, token, q.session, max_age, fault, now)
        dr == RedisDelete(redis, session_cookie, q.value, fault)
        exc == CASE branch = "persist" -> sr.exc
                 [] branch = "clear" -> dr.exc
                 [] OTHER -> NoExc
        mints == branch = "persist" /\ q.value = ""
    IN /\ q.wrapped
       /\ IF mints THEN fresh \in FreshTokens \ minted ELSE fresh = ""
       /\ minted' = IF mints THEN minted \cup {fresh} ELSE minted
       /\ redis' = CASE branch = "persist" -> sr.srv
                     [] branch = "clear" -> dr.srv
                     [] OTHER -> redis
       /\ persisted' =
            CASE branch = "persist" /\ sr.srv # redis -> [persisted EXCEPT ![token] = q.session]
              [] branch = "clear" /\ dr.exc = NoExc /\ fault = "ok" /\ q.value # ""
                    -> [persisted EXCEPT ![q.value] = EmptyDict]
              [] OTHER -> persisted
       /\ req' = [req EXCEPT ![r] =
            [q EXCEPT !.pc = IF exc # NoExc THEN "failed"
                             ELSE IF message = "http.response.start" THEN "started"
                             ELSE "forwarded",
                      !.exc = exc,
                      !.ops.set = @ + (IF branch = "persist" THEN 1 ELSE 0),
                      !.ops.delete = @ + (IF branch = "clear" THEN 1 ELSE 0),
                      !.set_cookie =
                          CASE exc # NoExc -> NoHeader
                            [] branch = "persist" -> PersistHeader(token)
                            [] branch = "clear" -> ClearHeader
                            [] OTHER -> @,
                      !.sent =
                          CASE exc # NoExc -> <<>>
                            [] branch = "persist" ->
                                  <<WithSetCookie(AppMessage(message), PersistHeader(token))>>
                            [] branch = "clear" ->
                                  <<WithSetCookie(AppMessage(message), ClearHeader)>>
                            [] OTHER -> <<AppMessage(message)>>]]
       /\ UNCHANGED <<now, store, written, last, cachedVars, auxVars>>

\* send_wrapper on the "http.response.start" message of an http request.
send_wrapper_start(r, fresh, fault) ==
    /\ req[r].pc = "app"
    /\ req[r].type = "http"
    /\ send_wrapper(r, "http.response.start", fresh, fault)

\* send_wrapper on a message that follows the response start of an http
\* request, or on a message of a websocket connection.
send_wrapper_other(r, message, fresh, fault) ==
    /\ \/ req[r].type = "http" /\ req[r].pc \in {"started", "forwarded"}
             /\ message = "http.response.body"
       \/ req[r].type = "websocket" /\ req[r].pc \in {"app", "forwarded"}
             /\ message = "websocket.send"
    /\ send_wrapper(r, message, fresh, fault)

\* The application returns (or its exception leaves __call__): the slot is
\* free for the next request.
app_returns(r) ==
    /\ req[r].pc # "new"
    /\ req' = [req EXCEPT ![r] = New]
    /\ UNCHANGED <<now, store, redis, written, last, cachedVars, minted, persisted, auxVars>>

(***************************************************************************)
(* DBSessionMiddleware                                                     *)
(***************************************************************************)
\* What an awaited call can end in: it returns, it raises an exception that
\* `except Exception` catches, or it raises one that is a BaseException only
\* (asyncio.CancelledError when the request task is cancelled).
Exceptions == {"ValueError", "DBAPIError"}
BaseExceptions == Exceptions \cup {"CancelledError"}

\* `except Exception:`
ExceptCatches_base(exc) == exc \in BaseExceptions
ExceptCatches(exc) == exc \in Exceptions

\* A request slot before dispatch.  `handler`, `commit` and `rollback` are how
\* the three awaited calls ended ("" when not made), `pending` the exception
\* the except clause caught, `returned` and `raised` how dispatch ended.
NoDispatch ==
    [pc |-> "new", handler |-> "", commit |-> "", rollback |-> "",
     pending |-> NoExc, returned |-> FALSE, raised |-> NoExc]

\* dispatch, up to `response = await call_next(request)`: get_session yields
\* the session of the request, which becomes request.state.db.
DBSessionMiddleware_dispatch(r) ==
    /\ db[r].pc = "new"
    /\ db' = [db EXCEPT ![r] = [NoDispatch EXCEPT !.pc = "call_next"]]
    /\ UNCHANGED <<now, store, redis, written, last, cachedVars, sessionVars,
                   emitted, lock, mc, everSet>>

\* `response = await call_next(request)` ends.
call_next(r, outcome) ==
    /\ db[r].pc = "call_next"
    /\ db' = [db EXCEPT ![r] =
                [@ EXCEPT !.handler = outcome,
                          !.pc = IF outcome = "response" THEN "commit"
                                 ELSE IF ExceptCatches(outcome) THEN "rollback"
                                 ELSE "done",
                          !.pending = IF outcome # "response" /\ ExceptCatches(outcome)
                                      THEN outcome ELSE NoExc,
                          !.raised = IF outcome # "response" /\ ~ExceptCatches(outcome)
                                     THEN outcome ELSE NoExc]]
    /\ UNCHANGED <<now, store, redis, written, last, cachedVars, sessionVars,
                   emitted, lock, mc, everSet>>

\* `await session.commit()` ends, and `return response` after it.
session_commit(r, outcome) ==
    /\ db[r].pc = "commit"
    /\ db' = [db EXCEPT ![r] =
                [@ EXCEPT !.commit = outcome,
                          !.pc = IF outcome = "ok" THEN "done"
                                 ELSE IF ExceptCatches(outcome) THEN "rollback"
                                 ELSE "done",
                          !.returned = outcome = "ok",
                          !.pending = IF outcome # "ok" /\ ExceptCatches(outcome)
                                      THEN outcome ELSE NoExc,
                          !.raised = IF outcome # "ok" /\ ~ExceptCatches(outcome)
                                     THEN outcome ELSE NoExc]]
    /\ UNCHANGED <<now, store, redis, written, last, cachedVars, sessionVars,
                   emitted, lock, mc, everSet>>

\* `await session.rollback()` ends, and `raise` after it.
session_rollback(r, outcome) ==
    /\ db[r].pc = "rollback"
    /\ db' = [db EXCEPT ![r] =
                [@ EXCEPT !.rollback = outcome,
                          !.pc = "done",
                          !.raised = IF outcome = "ok" THEN db[r].pending ELSE outcome]]
    /\ UNCHANGED <<now, store, redis, written, last, cachedVars, sessionVars,
                   emitted, lock, mc, everSet>>

\* The caller of dispatch has its response or its exception: the slot is free
\* for the next request.
dispatch_ends(r) ==
    /\ db[r].pc = "done"
    /\ db' = [db EXCEPT ![r] = NoDispatch]
    /\ UNCHANGED <<now, store, redis, written, last, cachedVars, sessionVars,
                   emitted, lock, mc, everSet>>

\* time.time() moves on between calls, on the server too.
Tick ==
    /\ now < MaxTime
    /\ now' = now + 1
    /\ redis' = ServerAt(redis, now + 1)
    /\ UNCHANGED <<store, written, last, cachedVars, sessionVars, auxVars>>

vars == <<now, store, redis, written, last, cachedVars, sessionVars, auxVars>>

InitBase ==
    /\ now = 0
    /\ store = EmptyStore
    /\ written = [k \in Keys |-> NoWrite]
    /\ last = NoCall
    /\ cache = "memory"
    /\ w = [p \in Callers |-> Idle]
    /\ raised = [k \in WrapperKeys |-> "no"]
    /\ req = [r \in Requests |-> New]
    /\ lock = 0
    /\ mc = [p \in Callers |-> NoOp]
    /\ everSet = [k \in Keys |-> {}]
    /\ db = [r \in Requests |-> NoDispatch]

\* No session was stored yet.
InitStore ==
    /\ redis = EmptyServer
    /\ minted = {}
    /\ persisted = [t \in Tokens |-> EmptyDict]

Init ==
    /\ InitBase
    /\ InitStore
    /\ emitted = [cfg |-> AppConfig, header |-> NoHeader]

\* The middleware under any configuration.
InitCookie ==
    /\ InitBase
    /\ InitStore
    /\ emitted \in [cfg : Configs, header : {NoHeader}]

NextMem ==
    \/ \E key \in Keys : InMemoryCache_get(key)
    \/ \E key \in Keys, value \in CacheValues, ttl \in TTLs : InMemoryCache_set(key, value, ttl)
    \/ \E key \in Keys : InMemoryCache_delete(key)
    \/ Tick

SpecMem == Init /\ [][NextMem]_vars

NextRedis ==
    \/ \E key \in RedisKeys, fault \in Faults : RedisCache_get(key, fault)
    \/ \E key \in RedisKeys, value \in CacheValues, ttl \in RedisTTLs, fault \in Faults :
           RedisCache_set(key, value, ttl, fault)
    \/ \E key \in RedisKeys, fault \in Faults : RedisCache_delete(key, fault)
    \/ \E key \in Keys, payload \in ForeignPayloads : ForeignWrite(key, payload)
    \/ Tick

SpecRedis == Init /\ [][NextRedis]_vars

\* One caller at a time: the calls of the wrapper follow one another.
NextCached ==
    \/ set_redis_cache
    \/ \E p \in {1}, d \in Decorated, args \in Args, fault \in Faults :
           cached_lookup(p, d, args, fault)
    \/ \E p \in {1}, outcome \in Outcomes : cached_compute(p, outcome)
    \/ \E p \in {1}, fault \in Faults : cached_store(p, fault)
    \/ Tick

SpecCached == Init /\ [][NextCached]_vars

\* The calls of the wrapper under every decoration of h, with a reachable
\* cache and a computation that returns 1.
NextKeys ==
    \/ set_redis_cache
    \/ \E p \in {1}, d \in KeyConfigs, args \in Args : cached_lookup(p, d, args, "ok")
    \/ \E p \in {1} : cached_compute(p, [exc |-> NoExc, value |-> Lit("1")])
    \/ \E p \in {1} : cached_store(p, "ok")

SpecKeys == Init /\ [][NextKeys]_vars

\* Two callers of the wrappers at once: every await of the wrapper is a point
\* where the other caller can run.
NextRace ==
    \/ set_redis_cache
    \/ \E p \in Callers, d \in {Idle.d}, args \in Args : cached_lookup(p, d, args, "ok")
    \/ \E p \in Callers, outcome \in Outcomes : cached_compute(p, outcome)
    \/ \E p \in Callers, fault \in {"ok", "ConnectionError"} : cached_store(p, fault)

SpecRace == Init /\ [][NextRace]_vars

\* Requests in flight through DBSessionMiddleware.
NextDB ==
    \/ \E r \in Requests : DBSessionMiddleware_dispatch(r)
    \/ \E r \in Requests, outcome \in {"response"} \cup BaseExceptions : call_next(r, outcome)
    \/ \E r \in Requests, outcome \in {"ok", "DBAPIError", "CancelledError"} :
          session_commit(r, outcome)
    \/ \E r \in Requests, outcome \in {"ok", "DBAPIError", "CancelledError"} :
          session_rollback(r, outcome)
    \/ \E r \in Requests : dispatch_ends(r)

SpecDB == Init /\ [][NextDB]_vars

\* The cookie values a client can present: a token it was given, or its own.
CookieValues == {NoCookie, Forged} \cup minted

\* One request at a time.
NextSession ==
    \/ \E r \in {1}, type \in {"http", "websocket", "lifespan"}, cookie \in CookieValues,
          fault \in Faults : SessionMiddleware_call(r, type, cookie, fault)
    \/ \E r \in {1}, k \in SessionKeys, v \in {Absent, "42", "'a'"} :
          v \in {Absent, SessionValueOf(k)} /\ handler_mutates(r, k, v)
    \/ \E r \in {1}, fresh \in FreshTokens \cup {""}, fault \in Faults :
          send_wrapper_start(r, fresh, fault)
    \/ \E r \in {1}, message \in Messages \ {"http.response.start"},
          fresh \in FreshTokens \cup {""} :
          send_wrapper_other(r, message, fresh, "ok")
    \/ \E r \in {1} : app_returns(r)
    \/ Tick

SpecSession == Init /\ [][NextSession]_vars

\* A browser holds the token of a stored session: the state a first request
\* leaves, whose handler set user_id and whose response start minted tok1.
SharedToken == "tok1"
FirstSession == Dict([NoItems EXCEPT !["user_id"] = SessionValueOf("user_id")])
InitShared ==
    /\ InitBase
    /\ redis = ServerSet(EmptyServer, FullKey(session_cookie, SharedToken),
                         encode(FirstSession), max_age, 0)
    /\ minted = {SharedToken}
    /\ persisted = [t \in Tokens |-> IF t = SharedToken THEN FirstSession ELSE EmptyDict]
    /\ emitted = [cfg |-> AppConfig, header |-> NoHeader]

\* Two requests in flight at once, both presenting that token.
NextShared ==
    \/ \E r \in Requests, fault \in Faults :
          SessionMiddleware_call(r, "http", SharedToken, fault)
    \/ \E r \in Requests, k \in SessionKeys, v \in {Absent, "42", "'a'"} :
          v \in {Absent, SessionValueOf(k)} /\ handler_mutates(r, k, v)
    \/ \E r \in Requests, fresh \in FreshTokens \cup {""}, fault \in Faults :
          send_wrapper_start(r, fresh, fault)
    \/ \E r \in Requests : app_returns(r)
    \/ Tick

SpecShared == InitShared /\ [][NextShared]_vars

NextCookie ==
    \/ \E token \in Tokens : format_persist(token)
    \/ format_clear

SpecCookie == InitCookie /\ [][NextCookie]_vars

\* Two callers of one InMemoryCache that contend for one key.
NextLock ==
    \/ \E p \in Callers, key \in {"k1"} :
          \/ InMemoryCache_call(p, "get", key, None, NoTTL)
          \/ InMemoryCache_call(p, "delete", key, None, NoTTL)
          \/ \E value \in TruthyValues, ttl \in {NoTTL, 1} :
                 InMemoryCache_call(p, "set", key, value, ttl)
    \/ \E p \in Callers : lock_acquire(p)
    \/ \E p \in Callers : get_read(p)
    \/ \E p \in Callers : get_check(p)
    \/ \E p \in Callers : set_expiry(p)
    \/ \E p \in Callers : set_assign(p)
    \/ \E p \in Callers : delete_del(p)
    \/ \E p \in Callers : lock_release(p)
    \/ Tick

SpecLock == Init /\ [][NextLock]_vars

(***************************************************************************)
(* Properties of the two cache backends.                                   *)
(***************************************************************************)

\* C4: after set(key, v) with v one of "", 0 or an empty collection, on a key
\* that had no entry, get(key) returns absent and the backend holds no entry
\* for key; for InMemoryCache and for RedisCache.
C4_FalsyValueNotCached ==
    (last.op = "set" /\ last.value \in FalsyValues /\ ~last.had) =>
        IF last.backend = "memory"
        THEN last.key \notin DOMAIN store /\ MemLookup(store, last.key, now) = None
        ELSE /\ ~Live(redis, FullKey(CachePrefix, last.key), now)
             /\ RedisGet(redis, CachePrefix, last.key, "ok", now).ret = None

\* C5: delete(key) raises no error; on a key with no entry it leaves the
\* backend's contents unchanged, on a present key it removes exactly that
\* entry; for InMemoryCache and for RedisCache.
C5_DeleteMissingIsNoop ==
    [][/\ \A key \in Keys :
              InMemoryCache_delete(key) =>
                  (last'.exc = NoExc /\ store' = Remove(store, key))
       /\ \A key \in RedisKeys :
              RedisCache_delete(key, "ok") =>
                  (last'.exc = NoExc /\ redis' = Remove(redis, FullKey(CachePrefix, key)))]_vars

\* C6: with ttl > 0, a get(key) before ttl has elapsed since the latest
\* set(key, value, ttl) returns value; a get(key) once ttl has elapsed returns
\* absent and leaves the key out of the in-memory store.
C6_TTLCorrectness ==
    LET e == written[last.key] IN
    (last.op = "get" /\ last.backend = "memory" /\ e.set /\ e.ttl > 0) =>
        /\ (last.at - e.at < e.ttl) => last.ret = e.value
        /\ (last.at - e.at >= e.ttl) =>
              (last.ret = None /\ last.key \notin DOMAIN store)

\* A get that found the entry in the store after its ttl had elapsed.
C6_Witness ==
    /\ last.op = "get" /\ last.backend = "memory" /\ last.had
    /\ written[last.key].set /\ written[last.key].ttl > 0
    /\ last.at - written[last.key].at >= written[last.key].ttl
    /\ last.ret = None

\* C7: after set(key, value) with no TTL, every later get(key) with no
\* delete(key) and no further set(key, ...) in between returns value.
C7_NoTTLPersistence ==
    LET e == written[last.key] IN
    (last.op = "get" /\ last.backend = "memory" /\ e.set /\ e.ttl = NoTTL) =>
        last.ret = e.value

\* A get at the end of the clock's range of an entry set without TTL at its start.
C7_Witness ==
    /\ last.op = "get" /\ last.backend = "memory"
    /\ written[last.key].set /\ written[last.key].ttl = NoTTL
    /\ written[last.key].at = 0 /\ last.at = MaxTime
    /\ last.ret = written[last.key].value

\* C8: when the backend fails with a connection failure or a timeout,
\* RedisCache.get returns absent, set and delete are no-ops, and none of the
\* three lets an error out.
C8_BackendFailureSwallowed ==
    [][\A key \in RedisKeys, fault \in {"ConnectionError", "TimeoutError"} :
        /\ RedisCache_get(key, fault) => (last'.ret = None /\ last'.exc = NoExc)
        /\ \A value \in CacheValues, ttl \in RedisTTLs :
              RedisCache_set(key, value, ttl, fault) =>
                  (redis' = redis /\ last'.exc = NoExc)
        /\ RedisCache_delete(key, fault) => (redis' = redis /\ last'.exc = NoExc)]_vars

\* C9: when the backend returns a non-empty payload the decoder cannot
\* decode, RedisCache.get returns absent and raises no error.
C9_MalformedValueIsMiss ==
    [][\A key \in Keys :
        LET payload == ServerGet(redis, FullKey(CachePrefix, key), now) IN
        (RedisCache_get(key, "ok") /\ payload # Nil /\ payload # Json("")
            /\ ~Decodable(payload)) =>
                (last'.ret = None /\ last'.exc = NoExc)]_vars

\* C15: under any interleaving of concurrent get, set and delete calls on one
\* key, at most one call is inside the section the lock guards, and what a
\* get reads and returns is absent or one of the values passed to set for
\* that key before.
Range(f) == {f[i] : i \in DOMAIN f}
InSection == {"locked", "read", "computed", "release"}
C15_ConcurrentCacheSafety ==
    /\ Cardinality({p \in Callers : mc[p].pc \in InSection}) <= 1
    /\ \A p \in Callers :
          /\ mc[p].pc \in InSection => lock = p
          /\ mc[p].op = "get" =>
                /\ mc[p].ret = None \/ mc[p].ret \in everSet[mc[p].key]
                /\ mc[p].value = None \/ mc[p].value \in everSet[mc[p].key]
    /\ \A k \in DOMAIN store : store[k].value \in everSet[k]

\* A get that returned a value while the other caller, whose set of another
\* value was called meanwhile, waits for the lock.
C15_Witness ==
    \E p, q \in Callers :
        /\ p # q
        /\ mc[p].op = "get" /\ mc[p].pc = "release" /\ mc[p].ret # None
        /\ lock = p
        /\ mc[q].op = "set" /\ mc[q].pc = "acquire" /\ mc[q].value # mc[p].ret

(***************************************************************************)
(* Properties of the cached() wrapper.                                     *)
(***************************************************************************)

\* C10, as claimed: when the wrapped computation raises, the wrapper ends
\* with that same error and has made no cache.set, so the call that follows a
\* raising call on the same key runs the computation again.
C10_ErrorsNeverCached ==
    \A p \in Callers :
        /\ w[p].compExc # NoExc =>
              (w[p].pc = "idle" /\ w[p].exc = w[p].compExc /\ ~w[p].stored)
        /\ (w[p].pc = "idle" /\ w[p].sawRaised # "no" /\ w[p].exc = NoExc) =>
              w[p].executed

\* C10, amended: when the wrapped computation raises, the wrapper ends with
\* that same error and has made no cache.set; if the lookup of the raising
\* call reached the backend, the call that follows it on the same key is not
\* answered from the cache: it runs the computation again.
C10_ErrorsNeverCachedWhenRead ==
    \A p \in Callers :
        /\ w[p].compExc # NoExc =>
              (w[p].pc = "idle" /\ w[p].exc = w[p].compExc /\ ~w[p].stored)
        /\ (w[p].pc = "idle" /\ w[p].sawRaised = "raised" /\ w[p].exc = NoExc) =>
              w[p].executed

\* A call that followed a raising call on its key, ran the computation and
\* returned its value.
C10_Witness ==
    \E p \in Callers :
        /\ w[p].pc = "idle" /\ w[p].sawRaised = "raised" /\ w[p].executed
        /\ w[p].compExc = NoExc /\ w[p].exc = NoExc /\ w[p].stored

\* The wrapper call p made last ran the computation of d on args and handed
\* its value to cache.set on a reachable backend, and its TTL has not elapsed.
StoredBefore(p, d, args) ==
    /\ w[p].pc = "idle" /\ w[p].d = d /\ w[p].args = args
    /\ w[p].executed /\ w[p].stored /\ w[p].reached /\ w[p].exc = NoExc
    /\ (w[p].until = NoExpiry \/ now < w[p].until)

\* C11, as claimed: a wrapper call that follows, within the TTL and with the
\* cache reachable, a call with the same arguments is answered with the value
\* of that call and does not run the computation; a call of a computation
\* under default fingerprinting with a different argument, for which the cache
\* holds nothing, runs the computation.
C11_MemoizationIdempotence ==
    [][\A p \in Callers, d \in Decorated, args \in Args :
        /\ (StoredBefore(p, d, args) /\ cached_lookup(p, d, args, "ok")) =>
               /\ w'[p].pc = "idle" /\ w'[p].exc = NoExc /\ ~w'[p].executed
               /\ w'[p].value = w[p].value
        /\ \A other \in Args \ {args} :
               (/\ d.cache_key = "" /\ ~d.key_builder /\ StoredBefore(p, d, other)
                /\ cached_lookup(p, d, args, "ok")) =>
                   /\ WrapperKey(d, args) # WrapperKey(d, other)
                   /\ Miss(CacheGet(cache, store, redis, WrapperKey(d, args), "ok", now).ret)
                         => w'[p].pc = "miss"]_vars

\* C11, amended: the same, for an earlier call whose computation returned a
\* value that is true in a Python condition.
C11_MemoizationIdempotenceOfTruthy ==
    [][\A p \in Callers, d \in Decorated, args \in Args :
        /\ (/\ StoredBefore(p, d, args) /\ Truthy(w[p].value)
            /\ cached_lookup(p, d, args, "ok")) =>
               /\ w'[p].pc = "idle" /\ w'[p].exc = NoExc /\ ~w'[p].executed
               /\ w'[p].value = w[p].value
        /\ \A other \in Args \ {args} :
               (/\ d.cache_key = "" /\ ~d.key_builder /\ StoredBefore(p, d, other)
                /\ Truthy(w[p].value)
                /\ cached_lookup(p, d, args, "ok")) =>
                   /\ WrapperKey(d, args) # WrapperKey(d, other)
                   /\ Miss(CacheGet(cache, store, redis, WrapperKey(d, args), "ok", now).ret)
                         => w'[p].pc = "miss"]_vars

\* A call of f answered from the remote cache without running f, while the
\* cache also holds the value f returned for the other argument.
C11_Witness ==
    \E p \in Callers :
        /\ cache = "redis"
        /\ w[p].pc = "idle" /\ w[p].d.name = "f" /\ ~w[p].executed /\ w[p].exc = NoExc
        /\ Truthy(w[p].value)
        /\ \E a \in Args \ {w[p].args} :
               Live(redis, FullKey(CachePrefix, WrapperKey(w[p].d, a)), now)

\* C12: under either backend, after a wrapper call whose computation returned
\* 0, an empty string or an empty collection, no entry is retrievable under
\* the call's key, so the next call runs the computation again.
C12_FalsyResultNeverCached ==
    \A p \in Callers :
        (/\ w[p].pc = "idle" /\ w[p].executed /\ w[p].stored /\ w[p].exc = NoExc
         /\ ~Truthy(w[p].value)) =>
            Miss(CacheGet(cache, store, redis, w[p].key, "ok", now).ret)

\* C16: the key of a wrapper call is cache_key when one is given, whatever
\* the arguments and the key_builder; else the result of key_builder when one
\* is given; else the default digest of the name and the arguments; with a
\* namespace the key is "{namespace}:{key}"; the lookup reads, and the store
\* writes, the entry under that key.
C16_KeyPriority ==
    [][\A p \in Callers :
        /\ \A d \in KeyConfigs, args \in Args :
              cached_lookup(p, d, args, "ok") =>
                  LET key == w'[p].key
                      bare == WrapperKey([d EXCEPT !.namespace = ""], args)
                  IN /\ d.cache_key # "" => bare = d.cache_key
                     /\ (d.cache_key = "" /\ d.key_builder) =>
                            bare = key_builder(d.name, args)
                     /\ (d.cache_key = "" /\ ~d.key_builder) =>
                            bare = default_key_builder(d.name, args)
                     /\ key = IF d.namespace # "" THEN d.namespace \o ":" \o bare ELSE bare
                     /\ w'[p].pc = "miss" <=>
                            Miss(CacheGet(cache, store, redis, key, "ok", now).ret)
        /\ cached_store(p, "ok") =>
              LET key == w[p].key IN
              /\ key = WrapperKey(w[p].d, w[p].args)
              /\ cache = "memory" =>
                    (key \in DOMAIN store' /\ \A k \in DOMAIN store' \ {key} :
                        k \in DOMAIN store /\ store'[k] = store[k])
              /\ cache = "redis" =>
                    redis' = ServerSet(redis, FullKey(CachePrefix, key), encode(w[p].value),
                                       w[p].d.ttl, now)]_vars

\* A call decorated with cache_key, key_builder and namespace that stored
\* its value in the remote cache under "ns:fixed", next to an entry of a call
\* decorated with key_builder only.
C16_Witness ==
    \E p \in Callers, a \in Args :
        /\ cache = "redis"
        /\ w[p].pc = "idle" /\ w[p].stored
        /\ w[p].d.cache_key = "fixed" /\ w[p].d.key_builder /\ w[p].d.namespace = "ns"
        /\ w[p].key = "ns:fixed"
        /\ Live(redis, FullKey(CachePrefix, "ns:fixed"), now)
        /\ Live(redis, FullKey(CachePrefix, key_builder("h", a)), now)

\* C26: a caller whose lookup missed runs the computation whatever the other
\* caller does (nothing waits for a computation in flight, and no step of
\* the other caller changes where it is); when its computation returns it
\* goes on to cache.set; and a set that writes leaves its value as the entry,
\* whatever the other caller had stored.
C26_ConcurrentMissesNotSerialized ==
    [][\A p \in Callers :
        /\ w[p].pc = "miss" =>
              \A outcome \in Outcomes : ENABLED cached_compute(p, outcome)
        /\ w[p].pc = "computed" => ENABLED cached_store(p, "ok")
        /\ w'[p] # w[p] => \A q \in Callers \ {p} : w'[q] = w[q]
        /\ (w[p].pc = "miss" /\ w'[p].pc # "miss") =>
              /\ w'[p].executed
              /\ w'[p].compExc = NoExc => w'[p].pc = "computed"
        /\ (w[p].pc = "computed" /\ w'[p].pc # "computed") =>
              /\ w'[p].stored
              /\ \A fault \in Faults :
                    (/\ cached_store(p, fault)
                     /\ CacheSet(cache, store, redis, w[p].key, w[p].value,
                                 w[p].d.ttl, fault, now).wrote) =>
                        CacheGet(cache, store', redis', w[p].key, "ok", now).ret
                            = w[p].value]_vars

\* Both callers missed on one key, both ran the computation and both stored:
\* the first returned 1, the second 'a', and the entry is 'a'.
C26_Witness ==
    /\ w[1].key = w[2].key /\ w[1].key # ""
    /\ w[1].executed /\ w[2].executed
    /\ w[1].stored /\ w[2].stored
    /\ w[1].value = Lit("1") /\ w[2].value = Lit("'a'")
    /\ CacheGet(cache, store, redis, w[1].key, "ok", now).ret = Lit("'a'")

(***************************************************************************)
(* Properties of SessionMiddleware.                                        *)
(***************************************************************************)
SessionKeyOf(token) == FullKey(session_cookie, token)

C3_NoChurnOnEmpty ==
    [][\A r \in Requests, fault \in Faults :
        (/\ req[r].pc = "app" /\ req[r].type = "http"
         /\ ~req[r].has_cookie /\ ~Truthy(req[r].session)
         /\ send_wrapper_start(r, "", fault)) =>
            /\ req'[r].pc = "started"
            /\ req'[r].set_cookie = NoHeader
            /\ req'[r].ops.set = 0 /\ req'[r].ops.delete = 0
            /\ redis' = redis]_vars

\* A response start of a request without cookie and with an empty session.
C3_Witness ==
    \E r \in Requests :
        /\ req[r].pc = "started" /\ req[r].type = "http" /\ ~req[r].has_cookie
        /\ ~Truthy(req[r].session)
        /\ req[r].set_cookie = NoHeader
        /\ req[r].ops = NoOps

\* C13: when the store set made at the response start fails because the
\* backend is unreachable, the response start is forwarded and carries no
\* Set-Cookie header for the session.
C13_WriteFailureNoCookie ==
    [][\A r \in Requests, fresh \in FreshTokens \cup {""},
          fault \in {"ConnectionError", "TimeoutError"} :
        (/\ req[r].pc = "app" /\ Truthy(req[r].session)
         /\ send_wrapper_start(r, fresh, fault)) =>
            (req'[r].pc = "started" /\ req'[r].set_cookie = NoHeader)]_vars

\* C14, as claimed: for a connection of any type but http the middleware
\* makes no call of the session store, adds no session mapping to the scope
\* and gives the application the original send.
C14_NonHttpPassedThrough ==
    \A r \in Requests :
        (req[r].pc # "new" /\ req[r].type # "http") =>
            (req[r].ops = NoOps /\ ~req[r].in_scope /\ ~req[r].wrapped)

\* C14, amended: that holds for a connection that is neither http nor
\* websocket; a websocket connection gets the session mapping in its scope
\* (hydrated by one store get when it presents the cookie) and send_wrapper,
\* and the middleware makes no store set or delete and adds no Set-Cookie
\* header for it.
C14_OnlyOtherTypesPassedThrough ==
    \A r \in Requests :
        /\ (req[r].pc # "new" /\ req[r].type \notin {"http", "websocket"}) =>
              (req[r].ops = NoOps /\ ~req[r].in_scope /\ ~req[r].wrapped)
        /\ (req[r].pc # "new" /\ req[r].type = "websocket") =>
              /\ req[r].ops = [get |-> IF req[r].has_cookie THEN 1 ELSE 0,
                               set |-> 0, delete |-> 0]
              /\ req[r].pc # "failed" => (req[r].in_scope /\ req[r].wrapped)
              /\ req[r].set_cookie = NoHeader

\* A websocket connection that presented a minted token, was given the
\* stored session, and had a message forwarded.
C14_Witness ==
    \E r \in Requests :
        /\ req[r].type = "websocket" /\ req[r].pc = "forwarded"
        /\ req[r].has_cookie /\ req[r].value \in minted
        /\ ~req[r].initial_session_was_empty
        /\ req[r].in_scope /\ req[r].wrapped
        /\ req[r].ops = [get |-> 1, set |-> 0, delete |-> 0]

\* C18: the first write of a non-empty session mints a token that was never
\* returned before; and a request presenting a cookie value for which the
\* store holds no entry (deleted, expired or never stored) does not get a
\* session stored under that value.
C18_TokenNeverReused ==
    [][\A r \in Requests, fresh \in FreshTokens \cup {""}, fault \in Faults :
        LET key == SessionKeyOf(req[r].value) IN
        /\ (/\ req[r].pc = "app" /\ req'[r].pc = "started"
            /\ ~req[r].has_cookie /\ Truthy(req[r].session)
            /\ send_wrapper_start(r, fresh, fault)) =>
               (fresh \in FreshTokens \ minted /\ req'[r].set_cookie.data = fresh)
        /\ (/\ req[r].pc = "app" /\ req[r].has_cookie
            /\ ~Live(redis, key, now)
            /\ send_wrapper_start(r, fresh, fault)) =>
               ~Live(redis', key, now)]_vars

\* C19, as claimed: for a request that presented a token with a non-empty
\* stored session, a response start with a non-empty session writes the store
\* entry of that token and sets the cookie to that token, minting nothing; a
\* response start with an empty session clears the cookie and leaves no store
\* entry for the token.
C19_TokenStability ==
    [][\A r \in Requests, fault \in Faults :
        LET key == SessionKeyOf(req[r].value) IN
        (/\ req[r].pc = "app" /\ req'[r].pc = "started"
         /\ req[r].has_cookie /\ ~req[r].initial_session_was_empty
         /\ send_wrapper_start(r, "", fault)) =>
            IF Truthy(req[r].session)
            THEN /\ req'[r].set_cookie = PersistHeader(req[r].value)
                 /\ minted' = minted
                 /\ fault = "ok" =>
                       redis' = ServerSet(redis, key, encode(req[r].session), max_age, now)
                 /\ fault # "ok" => redis' = redis
            ELSE /\ req'[r].set_cookie = ClearHeader
                 /\ key \notin DOMAIN redis']_vars

\* C19, amended: the same, except that a response start with an empty
\* session leaves no store entry for the token when the delete reached the
\* backend, and leaves the store as it was when it met a connection failure;
\* and that a timeout of the store call leaves send_wrapper as an exception,
\* with no header, no token minted and the store as it was.
C19_TokenStabilityWhenReachable ==
    [][\A r \in Requests, fault \in Faults :
        LET key == SessionKeyOf(req[r].value) IN
        (/\ req[r].pc = "app"
         /\ req[r].has_cookie /\ ~req[r].initial_session_was_empty
         /\ send_wrapper_start(r, "", fault)) =>
            IF fault = "TimeoutError"
            THEN /\ req'[r].pc = "failed" /\ req'[r].set_cookie = NoHeader
                 /\ minted' = minted /\ redis' = redis
            ELSE IF Truthy(req[r].session)
            THEN /\ req'[r].pc = "started"
                 /\ req'[r].set_cookie = PersistHeader(req[r].value)
                 /\ minted' = minted
                 /\ fault = "ok" =>
                       redis' = ServerSet(redis, key, encode(req[r].session), max_age, now)
                 /\ fault # "ok" => redis' = redis
            ELSE /\ req'[r].pc = "started"
                 /\ req'[r].set_cookie = ClearHeader
                 /\ fault = "ok" => key \notin DOMAIN redis'
                 /\ fault # "ok" => redis' = redis]_vars

\* A response start that wrote a changed session under the presented token.
C19_Witness ==
    \E r \in Requests :
        /\ req[r].pc = "started" /\ req[r].has_cookie /\ req[r].value \in minted
        /\ ~req[r].initial_session_was_empty
        /\ req[r].set_cookie = PersistHeader(req[r].value)
        /\ req[r].ops = [get |-> 1, set |-> 1, delete |-> 0]
        /\ Live(redis, SessionKeyOf(req[r].value), now)
        /\ persisted[req[r].value] = req[r].session
        /\ req[r].session.items["user_id"] = Absent

\* C20: a request makes at most one store set or delete; it makes it in the
\* step of send_wrapper on the http.response.start message of an http
\* request and in no other; and once that message has passed, nothing the
\* handler does to the session mapping reaches the store.
C20_PersistOnceAtResponseStart ==
    [][\A r \in Requests :
        /\ req'[r].ops.set + req'[r].ops.delete <= 1
        /\ (/\ req'[r].pc # "new"
            /\ \/ req'[r].ops.set # req[r].ops.set
               \/ req'[r].ops.delete # req[r].ops.delete) =>
               (/\ req[r].pc = "app" /\ req[r].type = "http"
                /\ req'[r].pc \in {"started", "failed"})
        /\ req[r].pc \in {"started", "forwarded"} =>
               /\ redis' = IF now' = now THEN redis ELSE ServerAt(redis, now')
               /\ persisted' = persisted]_vars

\* An http request whose session was written at the response start, and
\* whose handler changed the mapping afterwards: the store keeps the mapping
\* of the response start.
C20_Witness ==
    \E r \in Requests :
        /\ req[r].type = "http" /\ req[r].pc = "forwarded"
        /\ req[r].ops.set = 1 /\ req[r].ops.delete = 0
        /\ req[r].set_cookie.data \in Tokens
        /\ Live(redis, SessionKeyOf(req[r].set_cookie.data), now)
        /\ decode(redis[SessionKeyOf(req[r].set_cookie.data)].payload) # req[r].session
        /\ persisted[req[r].set_cookie.data] # req[r].session

C21_AtMostOneRoundTrip ==
    \A r \in Requests :
        req[r].type = "http" =>
            req[r].ops.get + req[r].ops.set + req[r].ops.delete <= 1

\* C21, amended: a request makes one get exactly when it presents the
\* cookie, and at most one set or delete; a request that presents the cookie
\* and writes or clears its session has made two calls.
C21_AtMostOneReadAndOneWrite ==
    \A r \in Requests :
        (req[r].pc # "new" /\ req[r].type = "http") =>
            /\ req[r].ops.get = IF req[r].has_cookie THEN 1 ELSE 0
            /\ req[r].ops.set + req[r].ops.delete <= 1
            /\ req[r].ops.set + req[r].ops.delete = 1 =>
                  req[r].pc \in {"started", "forwarded", "failed"}

\* A request that read its session at the entry and wrote it at the
\* response start: two calls of the store.
C21_Witness ==
    \E r \in Requests :
        /\ req[r].type = "http" /\ req[r].pc = "forwarded"
        /\ req[r].has_cookie /\ ~req[r].initial_session_was_empty
        /\ req[r].ops = [get |-> 1, set |-> 1, delete |-> 0]
        /\ req[r].set_cookie = PersistHeader(req[r].value)

C28_StaleCookieNeverCleared ==
    [][\A r \in Requests :
        (/\ req[r].pc = "app" /\ req[r].type = "http"
         /\ req[r].has_cookie /\ req[r].initial_session_was_empty
         /\ ~Truthy(req[r].session)) =>
            \A fault \in Faults :
                send_wrapper_start(r, "", fault) =>
                    /\ req'[r].pc = "started"
                    /\ req'[r].set_cookie = NoHeader
                    /\ req'[r].ops = [NoOps EXCEPT !.get = 1]
                    /\ req'[r].value = req[r].value
                    /\ redis' = redis /\ persisted' = persisted]_vars

\* The response start of a request that presented a token whose entry had
\* expired: no header, no delete.
C28_Witness ==
    \E r \in Requests :
        /\ req[r].type = "http" /\ req[r].pc = "started"
        /\ req[r].has_cookie /\ req[r].value \in minted
        /\ req[r].initial_session_was_empty /\ ~Truthy(req[r].session)
        /\ req[r].set_cookie = NoHeader
        /\ req[r].ops = [NoOps EXCEPT !.get = 1]
        /\ SessionKeyOf(req[r].value) \notin DOMAIN redis
        /\ Truthy(persisted[req[r].value])

\* C29: every call of send_wrapper passes its message to the downstream send
\* exactly once, with the type, the status and the body it was given; the
\* headers are the ones it was given, followed on the http.response.start
\* message by at most one Set-Cookie header, and by nothing on any other
\* message.
C29_EveryMessageForwardedOnce ==
    [][\A r \in Requests, message \in Messages, fresh \in FreshTokens \cup {""},
          fault \in Faults :
        (\/ message = "http.response.start" /\ send_wrapper_start(r, fresh, fault)
         \/ send_wrapper_other(r, message, fresh, fault)) =>
            LET m == AppMessage(message) IN
            /\ Len(req'[r].sent) = 1
            /\ req'[r].sent[1].type = m.type
            /\ req'[r].sent[1].status = m.status
            /\ req'[r].sent[1].body = m.body
            /\ \/ req'[r].sent[1].headers = m.headers
               \/ /\ message = "http.response.start"
                  /\ Len(req'[r].sent[1].headers) = Len(m.headers) + 1
                  /\ SubSeq(req'[r].sent[1].headers, 1, Len(m.headers)) = m.headers
                  /\ req'[r].sent[1].headers[Len(m.headers) + 1].name = "Set-Cookie"]_vars

\* C24: before __call__ a request has made no store call; once the
\* application is invoked the get of the hydration is done (one get with a
\* cookie, none without) and the session mapping is in the scope; while the
\* application has not produced the response start no set or delete was
\* made; a set or delete was made only by a request whose response start has
\* passed through send_wrapper.
C24_PhasesOrdered ==
    \A r \in Requests :
        /\ req[r].pc = "new" => req[r].ops = NoOps
        /\ (req[r].pc \in {"app", "started", "forwarded"} /\ ~PassedThrough(req[r].type)) =>
              /\ req[r].ops.get = IF req[r].has_cookie THEN 1 ELSE 0
              /\ req[r].in_scope
        /\ req[r].pc = "app" => (req[r].ops.set = 0 /\ req[r].ops.delete = 0)
        /\ req[r].ops.set + req[r].ops.delete > 0 =>
              /\ req[r].type = "http"
              /\ req[r].pc \in {"started", "forwarded", "failed"}
              /\ req[r].ops.get = IF req[r].has_cookie THEN 1 ELSE 0

\* A request that went through the three phases: hydrated by a get, emptied
\* by the handler, cleared by a delete at the response start.
C24_Witness ==
    \E r \in Requests :
        /\ req[r].type = "http" /\ req[r].pc = "started"
        /\ req[r].has_cookie /\ ~req[r].initial_session_was_empty
        /\ ~Truthy(req[r].session)
        /\ req[r].ops = [get |-> 1, set |-> 0, delete |-> 1]
        /\ req[r].set_cookie = ClearHeader

(***************************************************************************)
(* Requests that share one session token.                                  *)
(***************************************************************************)
SharedKey == SessionKeyOf(SharedToken)

\* The mapping the store holds for the shared token: empty when it holds none.
StoredSession ==
    IF Live(redis, SharedKey, now) THEN decode(redis[SharedKey].payload) ELSE EmptyDict

\* C22, as claimed: after the response start of a request that presented the
\* shared token, the store entry of the token is the session mapping of that
\* request, whatever the requests before it wrote.
C22_LastResponseStartWins ==
    [][\A r \in Requests, fault \in Faults :
        (/\ req[r].pc = "app" /\ req'[r].pc = "started"
         /\ send_wrapper_start(r, "", fault)) =>
            IF Truthy(req[r].session)
            THEN /\ Live(redis', SharedKey, now)
                 /\ decode(redis'[SharedKey].payload) = req[r].session
            ELSE ~Live(redis', SharedKey, now)]_vars

\* C22, amended: a response start whose set reached the store leaves the
\* whole mapping of its request as the entry, with nothing of the entry it
\* replaces; one whose delete reached the store leaves no entry; one that
\* makes no store call (session empty at the entry and at the response
\* start) or whose call failed leaves the entry of the earlier writer.  The
\* entry is the mapping of the latest write that reached the store.
C22_LastWriterWins ==
    [][/\ \A r \in Requests, fault \in Faults :
            (/\ req[r].pc = "app"
             /\ send_wrapper_start(r, "", fault)) =>
                LET branch == PersistBranch(req[r].session,
                                            req[r].initial_session_was_empty)
                IN IF fault = "ok" /\ branch = "persist"
                   THEN /\ Live(redis', SharedKey, now)
                        /\ decode(redis'[SharedKey].payload) = req[r].session
                        /\ redis'[SharedKey].expires_at = now + max_age
                   ELSE IF fault = "ok" /\ branch = "clear"
                   THEN SharedKey \notin DOMAIN redis'
                   ELSE redis' = redis
       /\ Live(redis', SharedKey, now') =>
             decode(redis'[SharedKey].payload) = persisted'[SharedToken]]_vars

\* A lost update: both requests started from the stored mapping, the first
\* added the cart and wrote, the second wrote its own mapping afterwards; the
\* entry has no cart.
C22_Witness ==
    /\ req[1].pc = "started" /\ req[2].pc = "started"
    /\ ~req[1].initial_session_was_empty /\ ~req[2].initial_session_was_empty
    /\ req[1].ops.set = 1 /\ req[2].ops.set = 1
    /\ req[1].session.items["cart"] = "'a'"
    /\ req[2].session = FirstSession
    /\ StoredSession = req[2].session
    /\ persisted[SharedToken] = req[2].session

\* C23: the store entry of a token changes only in the response start of a
\* request with a non-empty session, and the new entry is the encoding of the
\* complete mapping that request holds: all of its keys, and no key of the
\* entry it replaces or of another request.
C23_NeverPartiallyPersisted ==
    [][\A fk \in DOMAIN redis' :
        (fk \notin DOMAIN redis \/ redis'[fk] # redis[fk]) =>
            \E r \in Requests :
                /\ req[r].pc = "app" /\ req'[r].pc = "started"
                /\ Truthy(req[r].session)
                /\ fk = SessionKeyOf(req[r].value)
                /\ Decodable(redis'[fk].payload)
                /\ decode(redis'[fk].payload) = req[r].session
                /\ req'[r].session = req[r].session]_vars

\* Two requests wrote disjoint mappings under the shared token, user_id by
\* the first and cart by the second: the entry is the second mapping alone.
C23_Witness ==
    /\ req[1].pc = "started" /\ req[2].pc = "started"
    /\ req[1].ops.set = 1 /\ req[2].ops.set = 1
    /\ req[1].session.items = [NoItems EXCEPT !["user_id"] = "42"]
    /\ req[2].session.items = [NoItems EXCEPT !["cart"] = "'a'"]
    /\ Live(redis, SharedKey, now)
    /\ decode(redis[SharedKey].payload) = req[2].session

Committed(d) == d.commit = "ok"
RolledBack(d) == d.rollback = "ok"

\* The exception of the handler or of the commit, if one of them raised.
Failure(d) ==
    IF d.handler \in BaseExceptions THEN d.handler
    ELSE IF d.commit \in BaseExceptions THEN d.commit
    ELSE NoExc

\* C30, as claimed: when dispatch has ended, exactly one of commit and
\* rollback was executed; the commit followed a handler that returned; if the
\* handler or the commit raised, the rollback was executed and that exception
\* was raised to the caller; and no response was returned after a rollback.
C30_CommitOrRollback ==
    \A r \in Requests :
        LET d == db[r] IN
        d.pc = "done" =>
            /\ Committed(d) # RolledBack(d)
            /\ d.commit # "" => d.handler = "response"
            /\ Failure(d) # NoExc => (RolledBack(d) /\ d.raised = Failure(d))
            /\ ~(d.returned /\ d.rollback # "")

\* C30, amended: commit and rollback are never both executed; the commit is
\* awaited only after the handler returned, and the response is returned
\* exactly when the commit succeeded, never after a rollback; if the handler
\* or the commit raised an Exception, the rollback is awaited, and when it
\* succeeds that same exception is raised to the caller, otherwise the one
\* the rollback raised; if the handler or the commit raised an exception that
\* is no Exception (a cancellation), it goes to the caller with no rollback.
C30_CommitOrRollbackOnException ==
    \A r \in Requests :
        LET d == db[r] IN
        /\ d.commit # "" => d.handler = "response"
        /\ d.rollback # "" => (Failure(d) \in Exceptions /\ ~d.returned)
        /\ d.returned <=> (d.pc = "done" /\ Committed(d))
        /\ d.pc = "done" =>
              /\ ~(Committed(d) /\ RolledBack(d))
              /\ Committed(d) => (d.raised = NoExc /\ d.rollback = "")
              /\ Failure(d) \in Exceptions =>
                    /\ d.rollback # ""
                    /\ d.raised = IF RolledBack(d) THEN Failure(d) ELSE d.rollback
              /\ Failure(d) \in BaseExceptions \ Exceptions =>
                    (d.rollback = "" /\ d.raised = Failure(d))
              /\ (~Committed(d) /\ ~RolledBack(d)) =>
                    \/ Failure(d) \in BaseExceptions \ Exceptions
                    \/ d.rollback \in BaseExceptions

\* One request ended in a rollback after its commit raised, and its caller
\* got that exception; another was cancelled in its handler and ended with
\* neither commit nor rollback.
C30_Witness ==
    /\ db[1].pc = "done" /\ db[1].handler = "response"
    /\ db[1].commit = "DBAPIError" /\ db[1].rollback = "ok"
    /\ db[1].raised = "DBAPIError" /\ ~db[1].returned
    /\ db[2].pc = "done" /\ db[2].handler = "CancelledError"
    /\ db[2].commit = "" /\ db[2].rollback = ""
    /\ db[2].raised = "CancelledError"

====
